---- MODULE Spec2Model ----
(***************************************************************************)
(* Model of VideoUpscaleManager.upscale (app/services/grok/upscale.py).    *)
(*                                                                         *)
(* One behaviour is one call of upscale(video_id, auth_token).  The call   *)
(* is a coroutine; its position is pc.  Collaborators (AsyncSession,       *)
(* get_dynamic_headers, session.post, response.json,                       *)
(* video_cache_service.download_video) are environment choices: each may   *)
(* return any value of its bounded domain or raise any member of           *)
(* Exceptions.  Every raised object is an instance of Python's Exception   *)
(* class; cancellation of the task by the caller is not part of the model. *)
(*                                                                         *)
(* Text is a sequence of one-character strings, so that urlparse, lstrip,  *)
(* replace and slicing are computed character by character.                *)
(***************************************************************************)
EXTENDS Integers, Sequences, FiniteSets, TLC

\* ---------------------------------------------------------------- bounds
MaxPathLen == 4
MaxTextLen == 202

\* ------------------------------------------------------ program constants
HTTP_OK == 200
TextLimit == 200
REQUEST_TIMEOUT == 180
UPSCALE_ENDPOINT == "https://grok.com/rest/media/video/upscale"
IMPERSONATE_BROWSER == "chrome133a"

\* ------------------------------------------------------------ text helpers
SeqsUpTo(S, n) == UNION {[1..k -> S] : k \in 0..n}

Min(a, b) == IF a < b THEN a ELSE b

\* index of the first element of s at or after position from that is in set
\* cs, Len(s)+1 when there is none  (str.find over a set of delimiters)
FindFirst(s, cs, from) ==
    IF \E i \in from..Len(s) : s[i] \in cs
    THEN CHOOSE i \in from..Len(s) :
            s[i] \in cs /\ \A j \in from..(i-1) : s[j] \notin cs
    ELSE Len(s) + 1

RECURSIVE LStrip(_, _)
LStrip(s, c) ==
    IF s # <<>> /\ Head(s) = c THEN LStrip(Tail(s), c) ELSE s

Replace(s, old, new) ==
    [i \in 1..Len(s) |-> IF s[i] = old THEN new ELSE s[i]]

Slice(s, n) == SubSeq(s, 1, Min(Len(s), n))

\* ------------------------------------------------------------- JSON values
Str(s) == [t |-> "str", v |-> s]
Null == [t |-> "null", v |-> <<>>]
Num5 == [t |-> "num", v |-> <<"5">>]

\* Python truthiness of a JSON scalar
Truthy(x) ==
    CASE x.t = "str" -> x.v # <<>>
      [] x.t = "null" -> FALSE
      [] x.t = "num" -> TRUE

JsonObject(f) == [type |-> "object", fields |-> f]
JsonArray == [type |-> "array", fields |-> [items |-> <<>>]]

\* dict.get(key, default)
DictGet(d, key, default) ==
    IF key \in DOMAIN d THEN d[key] ELSE default

\* -------------------------------------------------------------- exceptions
Message(fmt, args) == [fmt |-> fmt, args |-> args]

Exc(cls, message, code, cause) ==
    [cls |-> cls, message |-> message, code |-> code, cause |-> cause]

GrokApiException(message, code) ==
    Exc("GrokApiException", message, code, <<>>)

\* what a collaborator may raise: a transport error, a programming error, or
\* an already typed domain error
Exceptions ==
    { Exc("TimeoutError", Message("timed out", <<>>), "", <<>>),
      Exc("ConnectionError", Message("connection reset", <<>>), "", <<>>),
      GrokApiException(Message("collaborator failed", <<>>), "CACHE_ERROR") }

JSONDecodeError == Exc("JSONDecodeError", Message("Expecting value", <<>>), "", <<>>)
AttributeError == Exc("AttributeError", Message("no attribute", <<>>), "", <<>>)

\* ------------------------------------------------------------ urlparse
Letters == {"h", "c", "a", "q", "f"}
SchemeChars == Letters \cup {"-"}

\* urlparse(url).path: an optional scheme up to the first ':', an optional
\* '//' authority up to the next '/', '?' or '#', then the fragment after the
\* first '#' and the query after the first '?' are cut off
UrlSchemeEnd(url) ==
    LET i == FindFirst(url, {":"}, 1)
    IN IF i <= Len(url) /\ i > 1 /\ url[1] \in Letters
          /\ \A k \in 1..(i-1) : url[k] \in SchemeChars
       THEN i ELSE 0

UrlPath(url) ==
    LET afterScheme == SubSeq(url, UrlSchemeEnd(url) + 1, Len(url))
        hasNetloc == Len(afterScheme) >= 2 /\ afterScheme[1] = "/"
                        /\ afterScheme[2] = "/"
        afterNetloc == IF hasNetloc
                       THEN SubSeq(afterScheme,
                                   FindFirst(afterScheme, {"/", "?", "#"}, 3),
                                   Len(afterScheme))
                       ELSE afterScheme
        noFragment == SubSeq(afterNetloc, 1, FindFirst(afterNetloc, {"#"}, 1) - 1)
    IN SubSeq(noFragment, 1, FindFirst(noFragment, {"?"}, 1) - 1)

\* ------------------------------------------------- inputs of the environment
VideoIds == {"", "v1"}
AuthTokens == {"", "TOK"}
CfClearances == {"", "CF1"}
ProxyUrls == {"", "http://proxy"}
BaseUrls == {<<>>, <<"h", ":", "/", "/", "q">>}

PathChars == {"/", "a", "-", ":"}
SchemeHost == <<"h", ":", "/", "/", "c">>
UrlPrefixes == {<<>>, SchemeHost}
UrlSuffixes == {<<>>, <<"?", "q">>, <<"#", "f">>}

\* the hdMediaUrl strings the remote service may answer with
Urls ==
    {pre \o p \o suf : pre \in UrlPrefixes, p \in SeqsUpTo(PathChars, MaxPathLen),
                       suf \in UrlSuffixes}

Digit(i) == <<"0", "1", "2", "3", "4", "5", "6", "7", "8", "9">>[(i % 10) + 1]
TextOfLen(n) == [i \in 1..n |-> Digit(i)]
RawTexts == {TextOfLen(n) : n \in 0..MaxTextLen}

\* parsed bodies: objects with a string, null, numeric or absent hdMediaUrl
\* and one more field, and one body that is not an object
JsonValues ==
    {JsonObject([hdMediaUrl |-> Str(u), videoId |-> "v1"]) : u \in Urls}
    \cup {JsonObject([hdMediaUrl |-> Null, videoId |-> "v1"]),
          JsonObject([hdMediaUrl |-> Num5, videoId |-> "v1"]),
          JsonObject([videoId |-> "v1"]),
          JsonObject([error |-> "denied"]),
          JsonArray}

JsonBody(j) == [parses |-> TRUE, value |-> j, text |-> <<>>]
RawBody(txt) == [parses |-> FALSE, value |-> JsonArray, text |-> txt]
Bodies == {JsonBody(j) : j \in JsonValues} \cup {RawBody(txt) : txt \in RawTexts}

StatusCodes == {200, 201, 404}
Responses == [status_code : StatusCodes, body : Bodies]

\* handles download_video may return: None or a path in the cache directory
NoHandle == <<>>
CacheHandles == {NoHandle, <<"cache/file">>}

\* ------------------------------------------------- the steps of upscale
NoError == <<>>

\* validation that tests the token before the video id
ValidateParams_AuthFirst(vid, tok) ==
    IF tok = "" THEN <<GrokApiException(Message("Authentication token missing", <<>>),
                                         "NO_AUTH_TOKEN")>>
    ELSE IF vid = "" THEN <<GrokApiException(Message("Video ID missing", <<>>),
                                              "INVALID_PARAMS")>>
    ELSE NoError

\* validation that forgets the token
ValidateParams_NoAuthCheck(vid, tok) ==
    IF vid = "" THEN <<GrokApiException(Message("Video ID missing", <<>>), "INVALID_PARAMS")>>
    ELSE NoError

\* parameter validation: the raised error, or NoError
ValidateParams(vid, tok) ==
    IF vid = "" THEN <<GrokApiException(Message("Video ID missing", <<>>), "INVALID_PARAMS")>>
    ELSE IF tok = "" THEN <<GrokApiException(Message("Authentication token missing", <<>>),
                                              "NO_AUTH_TOKEN")>>
    ELSE NoError

Cookie(tok, cf) == IF cf # "" THEN <<tok, ";", cf>> ELSE <<tok>>

Proxies(proxy) == IF proxy # "" THEN <<[http |-> proxy, https |-> proxy]>> ELSE <<>>

PostRequest(vid, tok, cf, proxy) ==
    [url |-> UPSCALE_ENDPOINT,
     headers |-> [dynamic |-> "/rest/media/video/upscale", Cookie |-> Cookie(tok, cf)],
     json |-> [videoId |-> vid],
     impersonate |-> IMPERSONATE_BROWSER,
     timeout |-> REQUEST_TIMEOUT,
     proxies |-> Proxies(proxy)]

\* a session that is never closed
AsyncWithExit_Leak(s) == s

\* leaving the 'async with AsyncSession() as session' block
AsyncWithExit(s) == IF s = "open" THEN "closed" ELSE s

\* a single handler that wraps whatever it catches
OuterExcept_AlwaysWrap(e) ==
    Exc("GrokApiException",
        Message("Video upscale exception: {}", <<e.message>>),
        "UPSCALE_ERROR", <<e>>)

\* the two outer handlers: 'except GrokApiException: raise' and
\* 'except Exception as e: raise GrokApiException(...) from e'
OuterExcept(e) ==
    IF e.cls = "GrokApiException" THEN e
    ELSE Exc("GrokApiException",
             Message("Video upscale exception: {}", <<e.message>>),
             "UPSCALE_ERROR", <<e>>)

\* result.get("hdMediaUrl") without the default
GetHdUrl_NoDefault(result) == DictGet(result.fields, "hdMediaUrl", Null)

\* result.get("hdMediaUrl", "")
GetHdUrl(result) == DictGet(result.fields, "hdMediaUrl", Str(<<>>))

\* caching attempted whatever hd_url is
ShouldCache_Always(hd) == TRUE

\* 'if hd_url:'
ShouldCache(hd) == Truthy(hd)

\* a caching handler that lets typed domain errors through
CachingCatches_ReraiseDomain(e) == e.cls # "GrokApiException"

\* 'except Exception as e' around the caching block: TRUE when e is absorbed
CachingCatches(e) == TRUE

\* flattening without stripping the leading separators
SafePath_NoStrip(path) == Replace(path, "/", "-")

\* safe_path and the local URL
SafePath(path) == Replace(LStrip(path, "/"), "/", "-")

ImagesRoute == <<"/", "i", "m", "a", "g", "e", "s", "/">>

LocalVideoUrl(path, base) ==
    IF base # <<>> THEN base \o ImagesRoute \o SafePath(path)
    ELSE ImagesRoute \o SafePath(path)

\* a result whose data has its hdMediaUrl overwritten by the returned URL
SuccessResult_Rewritten(hd, result) ==
    [hd_media_url |-> hd, success |-> TRUE,
     data |-> [result EXCEPT !.fields =
                 [k \in DOMAIN result.fields \cup {"hdMediaUrl"} |->
                    IF k = "hdMediaUrl" THEN hd ELSE result.fields[k]]]]

SuccessResult(hd, result) ==
    [hd_media_url |-> hd, success |-> TRUE, data |-> result]

\* details that carry the whole raw text
ErrorDetails_NoTruncate(resp) ==
    IF resp.body.parses THEN resp.body.value ELSE resp.body.text

\* the details of the message of a non-200 response
ErrorDetails(resp) ==
    IF resp.body.parses THEN resp.body.value ELSE Slice(resp.body.text, TextLimit)

StatusError(resp) ==
    GrokApiException(
        Message("Video upscale failed: Status code: {}, Details: {}",
                <<resp.status_code, ErrorDetails(resp)>>),
        "UPSCALE_ERROR")

\* ------------------------------------------------------------------ state
VARIABLES
    video_id, auth_token,                 \* the arguments of the call
    cf_clearance, proxy_url, base_url,    \* setting.grok_config / global_config
    pc,                                   \* position of the coroutine
    session,                              \* "none", "open" or "closed"
    request,                              \* <<>> or <<the request posted>>
    response,                             \* <<>> or <<the response received>>
    hd_url, video_path,                   \* locals of the 200 branch
    download_args,                        \* <<>> or <<arguments of download_video>>
    cache_path,                           \* what download_video returned
    thrown,                               \* <<>> or <<exception raised in the outer try>>
    caching_exc,                          \* <<>> or <<exception raised in the inner try>>
    returned,                             \* <<>> or <<the returned dict>>
    raised,                               \* <<>> or <<the exception the caller sees>>
    sessions_opened, post_calls, download_calls

vars == <<video_id, auth_token, cf_clearance, proxy_url, base_url, pc, session,
          request, response, hd_url, video_path, download_args, cache_path,
          thrown, caching_exc, returned, raised, sessions_opened, post_calls,
          download_calls>>

args == <<video_id, auth_token, cf_clearance, proxy_url, base_url>>
locals == <<hd_url, video_path, download_args, cache_path, caching_exc>>
calls == <<sessions_opened, post_calls, download_calls>>

Init ==
    /\ video_id \in VideoIds
    /\ auth_token \in AuthTokens
    /\ cf_clearance \in CfClearances
    /\ proxy_url \in ProxyUrls
    /\ base_url \in BaseUrls
    /\ pc = "Validating"
    /\ session = "none"
    /\ request = <<>>
    /\ response = <<>>
    /\ hd_url = Str(<<>>)
    /\ video_path = <<>>
    /\ download_args = <<>>
    /\ cache_path = NoHandle
    /\ thrown = <<>>
    /\ caching_exc = <<>>
    /\ returned = <<>>
    /\ raised = <<>>
    /\ sessions_opened = 0
    /\ post_calls = 0
    /\ download_calls = 0

\* an exception e leaves the outer try: the session block (if entered) is
\* left, the outer handlers run, the caller sees the outcome
Raise(e) ==
    /\ thrown' = <<e>>
    /\ session' = AsyncWithExit(session)
    /\ raised' = <<OuterExcept(e)>>
    /\ pc' = "Failed"

\* 'return {...}' inside the session block
Return(hd, result) ==
    /\ returned' = <<SuccessResult(hd, result)>>
    /\ session' = AsyncWithExit(session)
    /\ pc' = "Succeeded"

\* lines 40-57: validation, payload, cookie, proxies
Validate ==
    /\ pc = "Validating"
    /\ LET err == ValidateParams(video_id, auth_token)
       IN IF err # NoError
          THEN Raise(err[1])
          ELSE /\ pc' = "Opening"
               /\ UNCHANGED <<thrown, session, raised>>
    /\ UNCHANGED <<args, request, response, locals, returned, calls>>

\* line 60: AsyncSession() is created and entered
OpenSession ==
    /\ pc = "Opening"
    /\ session' = "open"
    /\ sessions_opened' = sessions_opened + 1
    /\ pc' = "Building"
    /\ UNCHANGED <<args, request, response, locals, thrown, returned, raised,
                   post_calls, download_calls>>

\* line 60: creating the session raises
OpenSessionRaises ==
    /\ pc = "Opening"
    /\ \E e \in Exceptions : Raise(e)
    /\ UNCHANGED <<args, request, response, locals, returned, calls>>

\* lines 61-71: headers are generated and the POST is issued
SendRequest ==
    /\ pc = "Building"
    /\ request' = <<PostRequest(video_id, auth_token, cf_clearance, proxy_url)>>
    /\ post_calls' = post_calls + 1
    /\ pc' = "Requesting"
    /\ UNCHANGED <<args, session, response, locals, thrown, returned, raised,
                   sessions_opened, download_calls>>

\* line 64: get_dynamic_headers raises, nothing is posted
HeadersRaise ==
    /\ pc = "Building"
    /\ \E e \in Exceptions : Raise(e)
    /\ UNCHANGED <<args, request, response, locals, returned, calls>>

\* line 61: the awaited POST returns a response
ReceiveResponse ==
    /\ pc = "Requesting"
    /\ \E r \in Responses : response' = <<r>>
    /\ pc' = "Responded"
    /\ UNCHANGED <<args, session, request, locals, thrown, returned, raised, calls>>

\* line 61: the awaited POST raises (network failure, timeout)
PostRaises ==
    /\ pc = "Requesting"
    /\ \E e \in Exceptions : Raise(e)
    /\ UNCHANGED <<args, request, response, locals, returned, calls>>

\* lines 96-97: an exception e of the caching block reaches its handler; when
\* caught, execution continues at the return statement with hd unchanged
CachingFails(e, hd, result) ==
    /\ caching_exc' = <<e>>
    /\ IF CachingCatches(e)
       THEN /\ Return(hd, result)
            /\ UNCHANGED <<thrown, raised>>
       ELSE /\ Raise(e)
            /\ UNCHANGED returned

\* lines 74-113: the response is interpreted up to the next suspension point
\* (the call of download_video) or the end of the call
HandleResponse ==
    /\ pc = "Responded"
    /\ LET r == response[1]
           result == r.body.value
           hd == GetHdUrl(result)
       IN IF r.status_code = HTTP_OK
          THEN IF ~r.body.parses
               THEN \* response.json() raises
                    /\ Raise(JSONDecodeError)
                    /\ UNCHANGED <<locals, returned, download_calls>>
               ELSE IF result.type # "object"
               THEN \* result.get raises
                    /\ Raise(AttributeError)
                    /\ UNCHANGED <<locals, returned, download_calls>>
               ELSE IF ~ShouldCache(hd)
               THEN /\ Return(hd, result)
                    /\ hd_url' = hd
                    /\ UNCHANGED <<video_path, download_args, cache_path, caching_exc,
                                   thrown, raised, download_calls>>
               ELSE IF hd.t # "str"
               THEN \* urlparse raises inside the caching block
                    /\ CachingFails(AttributeError, hd, result)
                    /\ hd_url' = hd
                    /\ UNCHANGED <<video_path, download_args, cache_path,
                                   download_calls>>
               ELSE \* download_video is called and awaited
                    /\ hd_url' = hd
                    /\ video_path' = UrlPath(hd.v)
                    /\ download_args' = <<UrlPath(hd.v), auth_token>>
                    /\ download_calls' = download_calls + 1
                    /\ pc' = "Caching"
                    /\ UNCHANGED <<cache_path, caching_exc, session, thrown,
                                   returned, raised>>
          ELSE /\ Raise(StatusError(r))
               /\ UNCHANGED <<locals, returned, download_calls>>
    /\ UNCHANGED <<args, request, response, sessions_opened, post_calls>>

\* lines 87-95 and 99: download_video returns cache_path
DownloadReturns ==
    /\ pc = "Caching"
    /\ \E handle \in CacheHandles :
          LET hd == IF handle # NoHandle
                    THEN Str(LocalVideoUrl(video_path, base_url))
                    ELSE hd_url
          IN /\ cache_path' = handle
             /\ hd_url' = hd
             /\ Return(hd, response[1].body.value)
    /\ UNCHANGED <<args, request, response, video_path, download_args,
                   caching_exc, thrown, raised, calls>>

\* lines 87, 96-99: download_video raises
DownloadRaises ==
    /\ pc = "Caching"
    /\ \E e \in Exceptions : CachingFails(e, hd_url, response[1].body.value)
    /\ UNCHANGED <<args, request, response, hd_url, video_path, download_args,
                   cache_path, calls>>

Next ==
    \/ Validate
    \/ OpenSession
    \/ OpenSessionRaises
    \/ SendRequest
    \/ HeadersRaise
    \/ ReceiveResponse
    \/ PostRaises
    \/ HandleResponse
    \/ DownloadReturns
    \/ DownloadRaises

Spec == Init /\ [][Next]_vars

\* ----------------------------------------------------------------- typing
Terminated == pc \in {"Succeeded", "Failed"}

TypeOK ==
    /\ pc \in {"Validating", "Opening", "Building", "Requesting", "Responded",
               "Caching", "Succeeded", "Failed"}
    /\ session \in {"none", "open", "closed"}
    /\ Len(request) <= 1 /\ Len(response) <= 1
    /\ Len(returned) <= 1 /\ Len(raised) <= 1
    /\ (pc = "Succeeded") = (returned # <<>>)
    /\ (pc = "Failed") = (raised # <<>>)

\* ----------------------------------------------------------------- claims
NoNetworkCall ==
    /\ sessions_opened = 0 /\ session = "none"
    /\ post_calls = 0 /\ request = <<>>
    /\ download_calls = 0 /\ download_args = <<>>

FailedWith(code) ==
    /\ pc = "Failed"
    /\ returned = <<>>
    /\ raised # <<>>
    /\ raised[1].cls = "GrokApiException"
    /\ raised[1].code = code

\* C1: a call with an empty video_id, whatever auth_token is, never issues a
\* network call (no session, no POST, no download_video) and, once past
\* validation, has failed with a GrokApiException of code INVALID_PARAMS.
C1_EmptyVideoId ==
    video_id = "" =>
        /\ NoNetworkCall
        /\ pc # "Validating" => FailedWith("INVALID_PARAMS")

C1_Witness ==
    /\ video_id = "" /\ auth_token = ""
    /\ FailedWith("INVALID_PARAMS")
    /\ NoNetworkCall

\* C2 as stated: a call with an empty auth_token, whatever video_id is
\* (an empty one included), never issues a network call and, once past
\* validation, has failed with a GrokApiException of code NO_AUTH_TOKEN.
C2_Original ==
    auth_token = "" =>
        /\ NoNetworkCall
        /\ pc # "Validating" => FailedWith("NO_AUTH_TOKEN")

\* C2 amended: a call with an empty auth_token and a non-empty video_id
\* never issues a network call and, once past validation, has failed with a
\* GrokApiException of code NO_AUTH_TOKEN.
C2_EmptyAuthToken ==
    (auth_token = "" /\ video_id # "") =>
        /\ NoNetworkCall
        /\ pc # "Validating" => FailedWith("NO_AUTH_TOKEN")

C2_Witness ==
    /\ auth_token = "" /\ video_id = "v1"
    /\ FailedWith("NO_AUTH_TOKEN")
    /\ NoNetworkCall

\* the hdMediaUrl field of the body received, when the body is an object
\* that has one
ReceivedObject ==
    /\ response # <<>>
    /\ response[1].body.parses
    /\ response[1].body.value.type = "object"

ReceivedHdMediaUrl == response[1].body.value.fields.hdMediaUrl

\* C3: an exception raised inside the caching block (by urlparse or by
\* download_video, a GrokApiException included) is absorbed: the call ends
\* with a returned result, success = TRUE and hd_media_url the hdMediaUrl of
\* the response; nothing is raised to the caller.
C3_CachingAbsorbed ==
    caching_exc # <<>> =>
        /\ pc = "Succeeded"
        /\ raised = <<>> /\ thrown = <<>>
        /\ response[1].status_code = HTTP_OK
        /\ returned[1].success = TRUE
        /\ returned[1].hd_media_url = ReceivedHdMediaUrl

C3_Witness ==
    /\ caching_exc # <<>>
    /\ caching_exc[1].cls = "GrokApiException"
    /\ download_calls = 1
    /\ pc = "Succeeded"
    /\ returned[1].hd_media_url = Str(SchemeHost \o <<"/", "a", "/", "a">>)

\* number of leading '/' of a path
LeadingSeparators(path) ==
    CHOOSE k \in 0..Len(path) :
        /\ \A i \in 1..k : path[i] = "/"
        /\ k < Len(path) => path[k + 1] # "/"

\* seg is path without its leading '/', every other '/' turned into '-'
IsFlattened(seg, path) ==
    LET k == LeadingSeparators(path)
    IN /\ Len(seg) = Len(path) - k
       /\ \A i \in 1..Len(seg) :
             /\ seg[i] # "/"
             /\ seg[i] = IF path[k + i] = "/" THEN "-" ELSE path[k + i]

\* for a URL scheme://host followed by nothing or by '/...', the path is
\* what follows the host up to the first '?' or '#'
IsPathOfAbsoluteUrl(path, url) ==
    LET rest == SubSeq(url, Len(SchemeHost) + 1, Len(url))
    IN (/\ Len(url) >= Len(SchemeHost)
        /\ SubSeq(url, 1, Len(SchemeHost)) = SchemeHost
        /\ (rest = <<>> \/ rest[1] \in {"/", "?", "#"}))
       => \E n \in 0..Len(rest) :
             /\ path = SubSeq(rest, 1, n)
             /\ \A i \in 1..n : rest[i] \notin {"?", "#"}
             /\ n < Len(rest) => rest[n + 1] \in {"?", "#"}

DownloadReturned ==
    pc = "Succeeded" /\ download_calls = 1 /\ caching_exc = <<>>

C5_EmptyHdUrl ==
    (/\ ReceivedObject
     /\ response[1].status_code = HTTP_OK
     /\ \/ "hdMediaUrl" \notin DOMAIN response[1].body.value.fields
        \/ ReceivedHdMediaUrl = Str(<<>>))
    => /\ download_calls = 0 /\ download_args = <<>>
       /\ pc \in {"Responded", "Succeeded"}
       /\ pc = "Succeeded" =>
             /\ returned[1].success = TRUE
             /\ returned[1].hd_media_url = Str(<<>>)

C5_Witness ==
    /\ ReceivedObject
    /\ response[1].status_code = HTTP_OK
    /\ "hdMediaUrl" \notin DOMAIN response[1].body.value.fields
    /\ pc = "Succeeded"
    /\ returned[1].hd_media_url = Str(<<>>)
    /\ download_calls = 0

\* C6: after a response whose status is not 200 the call fails with a
\* GrokApiException of code UPSCALE_ERROR whose message carries the status
\* code and the parsed body or, when the body does not parse, the first 200
\* characters of the raw text; the POST was issued once and download_video
\* is never called.
C6_Non200 ==
    (response # <<>> /\ response[1].status_code # HTTP_OK) =>
        /\ post_calls = 1
        /\ download_calls = 0 /\ download_args = <<>>
        /\ pc \in {"Responded", "Failed"}
        /\ pc = "Failed" =>
              /\ FailedWith("UPSCALE_ERROR")
              /\ raised[1].message.fmt =
                    "Video upscale failed: Status code: {}, Details: {}"
              /\ raised[1].message.args[1] = response[1].status_code
              /\ LET details == raised[1].message.args[2]
                     body == response[1].body
                 IN IF body.parses
                    THEN details = body.value
                    ELSE /\ Len(details) = Min(Len(body.text), 200)
                         /\ \A i \in 1..Len(details) : details[i] = body.text[i]

C6_Witness ==
    /\ response # <<>>
    /\ response[1].status_code = 404
    /\ ~response[1].body.parses
    /\ Len(response[1].body.text) = 201
    /\ FailedWith("UPSCALE_ERROR")
    /\ Len(raised[1].message.args[2]) = 200

\* C7: an exception raised in the main flow that is not a GrokApiException
\* reaches the caller as one GrokApiException of code UPSCALE_ERROR whose
\* cause is the original exception; a GrokApiException reaches the caller
\* unchanged.
C7_OuterHandlers ==
    thrown # <<>> =>
        /\ pc = "Failed"
        /\ returned = <<>>
        /\ Len(raised) = 1
        /\ IF thrown[1].cls = "GrokApiException"
           THEN raised = thrown
           ELSE /\ raised[1].cls = "GrokApiException"
                /\ raised[1].code = "UPSCALE_ERROR"
                /\ raised[1].cause = thrown
                /\ raised[1].cause[1].cls # "GrokApiException"

C7_Witness ==
    /\ thrown # <<>>
    /\ thrown[1].cls = "JSONDecodeError"
    /\ FailedWith("UPSCALE_ERROR")
    /\ raised[1].cause = thrown

\* C8: a call that has ended leaves no session open: the session it opened,
\* if any, is closed, whichever way the call ended.
C8_SessionClosed ==
    /\ sessions_opened <= 1
    /\ sessions_opened = 0 => session = "none"
    /\ Terminated => session # "open"
    /\ (Terminated /\ sessions_opened = 1) => session = "closed"

C8_Witness ==
    /\ pc = "Failed"
    /\ post_calls = 1
    /\ response = <<>>
    /\ thrown[1].cls = "TimeoutError"
    /\ session = "closed"

\* C9: the data of a returned result is the parsed body as received; when
\* hd_media_url was rewritten to the local URL, data still has the remote
\* hdMediaUrl and its other fields.
C9_DataUntouched ==
    pc = "Succeeded" =>
        /\ returned[1].data = response[1].body.value
        /\ DOMAIN returned[1].data.fields = DOMAIN response[1].body.value.fields
        /\ \A k \in DOMAIN returned[1].data.fields :
              returned[1].data.fields[k] = response[1].body.value.fields[k]

C9_Witness ==
    /\ pc = "Succeeded"
    /\ cache_path # NoHandle
    /\ returned[1].hd_media_url = Str(ImagesRoute \o <<"a">>)
    /\ returned[1].data.fields.hdMediaUrl = Str(SchemeHost \o <<"/", "a">>)
    /\ returned[1].data.fields.videoId = "v1"

\* the states of the spec's state machine
Phase(p) ==
    CASE p = "Validating" -> "Validating"
      [] p \in {"Opening", "Building", "Requesting", "Responded"} -> "Requesting"
      [] p = "Caching" -> "CachingAttempted"
      [] p \in {"Succeeded", "Failed"} -> p

C10_Counts ==
    /\ post_calls <= 1
    /\ post_calls = 1 => (video_id # "" /\ auth_token # "" /\ pc # "Validating")
    /\ download_calls <= 1
    /\ download_calls = 0 => pc # "Caching"
    /\ download_calls = 1 =>
          /\ post_calls = 1
          /\ ReceivedObject
          /\ response[1].status_code = HTTP_OK
          /\ "hdMediaUrl" \in DOMAIN response[1].body.value.fields
          /\ ReceivedHdMediaUrl.t = "str"
          /\ ReceivedHdMediaUrl.v # <<>>

C10_Step ==
    /\ Phase(pc) = "Validating" => Phase(pc') \in {"Requesting", "Failed"}
    /\ Phase(pc) = "Requesting" =>
          Phase(pc') \in {"Requesting", "CachingAttempted", "Succeeded", "Failed"}
    /\ Phase(pc) = "CachingAttempted" => Phase(pc') = "Succeeded"
    /\ Terminated => UNCHANGED vars
    /\ post_calls' # post_calls => (pc = "Building" /\ post_calls' = 1)
    /\ download_calls' # download_calls => (pc = "Responded" /\ pc' = "Caching")

\* C10: one call goes Validating -> Requesting -> (Succeeded | Failed): at
\* most one POST, issued only after both validations passed; download_video
\* called at most once, only after a 200 response with a non-empty hdMediaUrl;
\* once the caching step has started the call can only end in Succeeded.
C10_StateMachine == [](C10_Counts) /\ [][C10_Step]_vars

C10_Witness ==
    /\ pc = "Succeeded"
    /\ post_calls = 1
    /\ download_calls = 1
    /\ cache_path = NoHandle
    /\ caching_exc = <<>>
====
